---- MODULE Spec2Model ----
(***************************************************************************)
(* surf: the Client's per-verb request constructors and the middleware     *)
(* chain (Middleware::handle, Next::new, Next::run), as a state machine.   *)
(*                                                                         *)
(* A send is a tree of invocation frames.  The root frame is the caller's  *)
(* send; every call of Next::run adds one child frame: the handle future   *)
(* of the first remaining middleware, or the endpoint future when no       *)
(* middleware remains.  A frame that finishes hands its Result to the      *)
(* frame that awaits it.                                                   *)
(***************************************************************************)
EXTENDS Naturals, Sequences, FiniteSets

VARIABLES
    client,         \* Client { client: Arc<dyn HttpClient> }
    requests,       \* the request builders the Client has produced
    panicked,       \* payload of the panic raised by parse().unwrap(), or "none"
    frames,         \* every future created so far, in creation order
    log,            \* observable side effects, in the order they happened
    endpointCalls   \* call counter of the transport endpoint

vars == <<client, requests, panicked, frames, log, endpointCalls>>

----------------------------------------------------------------------------
(* Bounds and input sets *)

MaxMiddleware == 3

Methods == {"GET", "HEAD", "POST", "PUT", "DELETE", "CONNECT", "OPTIONS", "TRACE", "PATCH"}

WellFormedUris == {"https://httpbin.org/get"}
MalformedUris  == {"http://[::1"}
Uris == WellFormedUris \cup MalformedUris

\* Transport doubles a Client can be created with: one that echoes the received
\* headers back, one that always fails with a network error, one that fails on
\* its first call only.
Transports == {"echo", "down", "flaky"}

\* Middleware implementations that can be attached.  "printer" is the body of
\* Printer / Logger / fn logger; the other bodies are the behaviours the trait
\* signature admits: header injection, short-circuit, failure, retry, recovery.
UnitKinds ==
    { [form |-> "object",   body |-> "printer"],
      [form |-> "function", body |-> "printer"],
      [form |-> "object",   body |-> "header"],
      [form |-> "function", body |-> "header"],
      [form |-> "object",   body |-> "shortcircuit"],
      [form |-> "object",   body |-> "fail"],
      [form |-> "object",   body |-> "retry"],
      [form |-> "object",   body |-> "recover"] }

----------------------------------------------------------------------------
(* Values *)

NoRes == [tag |-> "none", by |-> 0, n |-> 0, headers |-> <<>>, echo |-> <<>>]

\* Ok(Response) created by `by` (0 = the endpoint, i > 0 = middleware i);
\* n numbers the endpoint invocation that produced it.
OkRes(by, n, echo) == [tag |-> "ok", by |-> by, n |-> n, headers |-> <<>>, echo |-> echo]

\* Err(Exception) raised by `by`.
ErrRes(by, n) == [tag |-> "err", by |-> by, n |-> n, headers |-> <<>>, echo |-> <<>>]

SendUnit     == [ix |-> 0, form |-> "none", body |-> "send"]
EndpointUnit == [ix |-> 0, form |-> "none", body |-> "endpoint"]

NoNext == [next_middleware |-> <<>>, endpoint |-> "none"]

----------------------------------------------------------------------------
(* http::Uri parsing, as used by the constructors: str::parse() *)

ParseUri(uri) ==
    IF uri \in WellFormedUris
    THEN [ok |-> TRUE,  uri |-> uri, err |-> "none"]
    ELSE [ok |-> FALSE, uri |-> "",  err |-> "InvalidUri"]

----------------------------------------------------------------------------
(* Client *)

\* Client::with_client: the Client holds the transport handle it is given.
with_client(handle) == [client |-> handle]

\* Request::with_client: a builder with the method and target fixed, bound to
\* the transport handle, with no middleware attached yet.
RequestWithClient(method, uri, handle) ==
    [method |-> method, uri |-> uri, client |-> handle,
     middleware |-> <<>>, state |-> "built"]

\* A constructor that keeps the unparsed target and builds the request anyway.
ConstructUnparsed(method, uri) ==
    /\ panicked = "none"
    /\ requests' = Append(requests, RequestWithClient(method, uri, client.client))
    /\ UNCHANGED <<client, panicked, frames, log, endpointCalls>>

\* A constructor body that builds a GET request whatever the verb.
ConstructAlwaysGet(method, uri) ==
    /\ panicked = "none"
    /\ LET parsed == ParseUri(uri) IN
         IF parsed.ok
         THEN /\ requests' = Append(requests,
                                RequestWithClient("GET", parsed.uri, client.client))
              /\ UNCHANGED panicked
         ELSE /\ panicked' = parsed.err
              /\ UNCHANGED requests
    /\ UNCHANGED <<client, frames, log, endpointCalls>>

\* A constructor body that binds the builder to a transport of its own
\* instead of the handle of the Client.
ConstructOwnTransport(method, uri) ==
    /\ panicked = "none"
    /\ LET parsed == ParseUri(uri) IN
         IF parsed.ok
         THEN /\ requests' = Append(requests,
                                RequestWithClient(method, parsed.uri, "native"))
              /\ UNCHANGED panicked
         ELSE /\ panicked' = parsed.err
              /\ UNCHANGED requests
    /\ UNCHANGED <<client, frames, log, endpointCalls>>

\* The body the nine per-verb constructors share:
\*   let uri = uri.as_ref().to_owned().parse().unwrap();
\*   Request::with_client(http::Method::<VERB>, uri, self.client.clone())
Construct(method, uri) ==
    /\ panicked = "none"
    /\ LET parsed == ParseUri(uri) IN
         IF parsed.ok
         THEN /\ requests' = Append(requests,
                                RequestWithClient(method, parsed.uri, client.client))
              /\ UNCHANGED panicked
         ELSE /\ panicked' = parsed.err
              /\ UNCHANGED requests
    /\ UNCHANGED <<client, frames, log, endpointCalls>>

get(uri)     == Construct("GET", uri)
head(uri)    == Construct("HEAD", uri)
post(uri)    == Construct("POST", uri)
put(uri)     == Construct("PUT", uri)
delete(uri)  == Construct("DELETE", uri)
connect(uri) == Construct("CONNECT", uri)
options(uri) == Construct("OPTIONS", uri)
trace(uri)   == Construct("TRACE", uri)
patch(uri)   == Construct("PATCH", uri)

----------------------------------------------------------------------------
(* Request builder *)

\* Request::middleware(unit): append to the ordered list.
AttachMiddleware(r, kind) ==
    /\ panicked = "none"
    /\ r \in DOMAIN requests
    /\ requests[r].state = "built"
    /\ Len(requests[r].middleware) < MaxMiddleware
    /\ requests' = [requests EXCEPT ![r].middleware =
            Append(@, [ix |-> Len(@) + 1, form |-> kind.form, body |-> kind.body])]
    /\ UNCHANGED <<client, panicked, frames, log, endpointCalls>>

\* Next::new(next, endpoint)
NextNew(next, endpoint) == [next_middleware |-> next, endpoint |-> endpoint]

\* A future that has been created and not yet polled.
Frame(unit, req, handle, next, pc) ==
    [send |-> 0, parent |-> 0, unit |-> unit, orig |-> req, req |-> req,
     client |-> handle, next |-> next, pc |-> pc, got |-> <<>>, ret |-> NoRes,
     calls |-> 0, n |-> 0, owns |-> TRUE]

\* Sending a request: a cursor over the full middleware list and the transport
\* endpoint is built, and the caller's future will run it.
Send(r) ==
    /\ panicked = "none"
    /\ r \in DOMAIN requests
    /\ requests[r].state = "built"
    /\ requests' = [requests EXCEPT ![r].state = "sent"]
    /\ LET rq == requests[r]
           req == [method |-> rq.method, uri |-> rq.uri, headers |-> <<>>]
           root == Frame(SendUnit, req, rq.client,
                         NextNew(rq.middleware, "endpoint"), "call")
       IN frames' = Append(frames, [root EXCEPT !.send = r])
    /\ UNCHANGED <<client, panicked, log, endpointCalls>>

----------------------------------------------------------------------------
(* Middleware dispatch *)

\* The async block of a middleware body, capturing (req, client, next).
Invoke(unit, req, handle, next) == Frame(unit, req, handle, next, "start")

\* A function adapter that hands the function the cursor's endpoint only.
FnHandleNoCursor(unit, req, handle, next) ==
    Invoke(unit, req, handle, [next EXCEPT !.next_middleware = <<>>])

\* impl<F> Middleware for F: handle is (self)(req, client, next).
FnHandle(unit, req, handle, next) == Invoke(unit, req, handle, next)

\* Middleware::handle on an Arc<dyn Middleware>: dynamic dispatch to the
\* object's own handle, or to the adapter of a plain function.
handle(unit, req, handle_, next) ==
    IF unit.form = "function"
    THEN FnHandle(unit, req, handle_, next)
    ELSE Invoke(unit, req, handle_, next)

\* Next::run, taking the last remaining middleware instead of the first.
runSplitLast(self, req, handle_) ==
    IF self.next_middleware # <<>>
    THEN LET k == Len(self.next_middleware)
             current == self.next_middleware[k]
             next == SubSeq(self.next_middleware, 1, k - 1)
         IN [target |-> "handle", unit |-> current, req |-> req, client |-> handle_,
             next |-> [self EXCEPT !.next_middleware = next]]
    ELSE [target |-> "endpoint", unit |-> EndpointUnit, req |-> req,
          client |-> handle_, next |-> self]

\* Next::run, advancing the cursor past two middleware instead of one.
runSkipsOne(self, req, handle_) ==
    IF self.next_middleware # <<>>
    THEN LET current == Head(self.next_middleware)
             next == Tail(self.next_middleware)
         IN [target |-> "handle", unit |-> current, req |-> req, client |-> handle_,
             next |-> [self EXCEPT !.next_middleware =
                                       IF next = <<>> THEN next ELSE Tail(next)]]
    ELSE [target |-> "endpoint", unit |-> EndpointUnit, req |-> req,
          client |-> handle_, next |-> self]

\* Next::run, handing the endpoint a fresh GET request instead of req.
runFreshRequest(self, req, handle_) ==
    IF self.next_middleware # <<>>
    THEN LET current == Head(self.next_middleware)
             next == Tail(self.next_middleware)
         IN [target |-> "handle", unit |-> current, req |-> req, client |-> handle_,
             next |-> [self EXCEPT !.next_middleware = next]]
    ELSE [target |-> "endpoint", unit |-> EndpointUnit,
          req |-> [method |-> "GET", uri |-> req.uri, headers |-> <<>>],
          client |-> handle_, next |-> self]

\* Next::run, calling the endpoint while one middleware still remains.
runEndpointEarly(self, req, handle_) ==
    IF Len(self.next_middleware) > 1
    THEN LET current == Head(self.next_middleware)
             next == Tail(self.next_middleware)
         IN [target |-> "handle", unit |-> current, req |-> req, client |-> handle_,
             next |-> [self EXCEPT !.next_middleware = next]]
    ELSE [target |-> "endpoint", unit |-> EndpointUnit, req |-> req,
          client |-> handle_, next |-> self]

\* Next::run, invoking the first middleware without advancing the cursor.
runNoAdvance(self, req, handle_) ==
    IF self.next_middleware # <<>>
    THEN LET current == Head(self.next_middleware)
         IN [target |-> "handle", unit |-> current, req |-> req, client |-> handle_,
             next |-> self]
    ELSE [target |-> "endpoint", unit |-> EndpointUnit, req |-> req,
          client |-> handle_, next |-> self]

\* Next::run: the call it makes.
\*   if let Some((current, next)) = self.next_middleware.split_first() {
\*       self.next_middleware = next;  current.handle(req, client, self)
\*   } else { (self.endpoint)(req, client) }
run(self, req, handle_) ==
    IF self.next_middleware # <<>>
    THEN LET current == Head(self.next_middleware)
             next == Tail(self.next_middleware)
         IN [target |-> "handle", unit |-> current, req |-> req, client |-> handle_,
             next |-> [self EXCEPT !.next_middleware = next]]
    ELSE [target |-> "endpoint", unit |-> EndpointUnit, req |-> req,
          client |-> handle_, next |-> self]

----------------------------------------------------------------------------
(* Steps of a send *)

Event(ev, f, headers) ==
    [ev |-> ev, send |-> frames[f].send, unit |-> frames[f].unit.ix,
     headers |-> headers, client |-> frames[f].client]

\* Frame f is a middleware future running body `body` at position pc.
At(f, body, pc) ==
    /\ panicked = "none"
    /\ f \in DOMAIN frames
    /\ frames[f].unit.body = body
    /\ frames[f].pc = pc

\* The frames after future f has completed with result r: the frame awaiting
\* it (the one that called next.run) resumes with r.
Returned(f, r) ==
    [i \in DOMAIN frames |->
        IF i = f THEN [frames[i] EXCEPT !.pc = "done", !.ret = r]
        ELSE IF i = frames[f].parent
             THEN [frames[i] EXCEPT !.pc = "resumed", !.got = Append(@, r)]
             ELSE frames[i]]

Last(seq) == seq[Len(seq)]

WithHeader(req, h) == [req EXCEPT !.headers = Append(@, h)]

\* next.run on one cursor shared by all futures (the cursor of the future
\* created last) instead of the cursor the calling future holds.
NextRunSharedCursor(f) ==
    /\ panicked = "none"
    /\ f \in DOMAIN frames
    /\ frames[f].pc = "call"
    /\ LET fr == frames[f]
           d == run(Last(frames).next, fr.req, fr.client)
           \* run takes `client: Box<dyn HttpClient>` by value: the caller's
           \* handle is moved into the call.
           awaiting == [frames EXCEPT ![f].pc = "await", ![f].calls = @ + 1,
                                      ![f].owns = FALSE]
       IN IF d.target = "handle"
          THEN /\ frames' = Append(awaiting,
                     [handle(d.unit, d.req, d.client, d.next)
                         EXCEPT !.parent = f, !.send = fr.send])
               /\ UNCHANGED <<log, endpointCalls>>
          ELSE /\ frames' = Append(awaiting,
                     [Frame(EndpointUnit, d.req, d.client, NoNext, "io")
                         EXCEPT !.parent = f, !.send = fr.send,
                                !.n = endpointCalls + 1])
               /\ log' = Append(log, [ev |-> "endpoint", send |-> fr.send, unit |-> 0,
                                      headers |-> d.req.headers, client |-> d.client])
               /\ endpointCalls' = endpointCalls + 1
    /\ UNCHANGED <<client, requests, panicked>>

\* next.run handing the future it creates to a task of its own instead of
\* returning it to the caller to await.
NextRunDetached(f) ==
    /\ panicked = "none"
    /\ f \in DOMAIN frames
    /\ frames[f].pc = "call"
    /\ LET fr == frames[f]
           d == run(fr.next, fr.req, fr.client)
           \* run takes `client: Box<dyn HttpClient>` by value: the caller's
           \* handle is moved into the call.
           awaiting == [frames EXCEPT ![f].pc = "await", ![f].calls = @ + 1,
                                      ![f].owns = FALSE]
       IN IF d.target = "handle"
          THEN /\ frames' = Append(awaiting,
                     [handle(d.unit, d.req, d.client, d.next)
                         EXCEPT !.parent = 0, !.send = fr.send])
               /\ UNCHANGED <<log, endpointCalls>>
          ELSE /\ frames' = Append(awaiting,
                     [Frame(EndpointUnit, d.req, d.client, NoNext, "io")
                         EXCEPT !.parent = 0, !.send = fr.send,
                                !.n = endpointCalls + 1])
               /\ log' = Append(log, [ev |-> "endpoint", send |-> fr.send, unit |-> 0,
                                      headers |-> d.req.headers, client |-> d.client])
               /\ endpointCalls' = endpointCalls + 1
    /\ UNCHANGED <<client, requests, panicked>>

\* next.run advancing the cursor its caller holds (run on `&mut self`)
\* instead of a copy of it.
NextRunInPlace(f) ==
    /\ panicked = "none"
    /\ f \in DOMAIN frames
    /\ frames[f].pc = "call"
    /\ LET fr == frames[f]
           d == run(fr.next, fr.req, fr.client)
           \* run takes `client: Box<dyn HttpClient>` by value: the caller's
           \* handle is moved into the call.
           awaiting == [frames EXCEPT ![f].pc = "await", ![f].calls = @ + 1,
                                      ![f].owns = FALSE,
                                      ![f].next = d.next]
       IN IF d.target = "handle"
          THEN /\ frames' = Append(awaiting,
                     [handle(d.unit, d.req, d.client, d.next)
                         EXCEPT !.parent = f, !.send = fr.send])
               /\ UNCHANGED <<log, endpointCalls>>
          ELSE /\ frames' = Append(awaiting,
                     [Frame(EndpointUnit, d.req, d.client, NoNext, "io")
                         EXCEPT !.parent = f, !.send = fr.send,
                                !.n = endpointCalls + 1])
               /\ log' = Append(log, [ev |-> "endpoint", send |-> fr.send, unit |-> 0,
                                      headers |-> d.req.headers, client |-> d.client])
               /\ endpointCalls' = endpointCalls + 1
    /\ UNCHANGED <<client, requests, panicked>>

\* next.run(req, client) called by frame f, which then awaits the new future.
NextRun(f) ==
    /\ panicked = "none"
    /\ f \in DOMAIN frames
    /\ frames[f].pc = "call"
    /\ LET fr == frames[f]
           d == run(fr.next, fr.req, fr.client)
           \* run takes `client: Box<dyn HttpClient>` by value: the caller's
           \* handle is moved into the call.
           awaiting == [frames EXCEPT ![f].pc = "await", ![f].calls = @ + 1,
                                      ![f].owns = FALSE]
       IN IF d.target = "handle"
          THEN /\ frames' = Append(awaiting,
                     [handle(d.unit, d.req, d.client, d.next)
                         EXCEPT !.parent = f, !.send = fr.send])
               /\ UNCHANGED <<log, endpointCalls>>
          ELSE /\ frames' = Append(awaiting,
                     [Frame(EndpointUnit, d.req, d.client, NoNext, "io")
                         EXCEPT !.parent = f, !.send = fr.send,
                                !.n = endpointCalls + 1])
               /\ log' = Append(log, [ev |-> "endpoint", send |-> fr.send, unit |-> 0,
                                      headers |-> d.req.headers, client |-> d.client])
               /\ endpointCalls' = endpointCalls + 1
    /\ UNCHANGED <<client, requests, panicked>>

\* The transport double behind handle h answering its n-th call.
Transport(h, n, req) ==
    IF h = "echo" \/ (h = "flaky" /\ n > 1)
    THEN OkRes(0, n, req.headers)
    ELSE ErrRes(0, n)

\* The endpoint future completes with the transport's answer.
EndpointReturn(f) ==
    /\ At(f, "endpoint", "io")
    /\ frames' = Returned(f, Transport(frames[f].client, frames[f].n, frames[f].req))
    /\ UNCHANGED <<client, requests, panicked, log, endpointCalls>>

\* The caller's send future returns what next.run gave it.
SendReturn(f) ==
    /\ At(f, "send", "resumed")
    /\ frames' = [frames EXCEPT ![f].pc = "done", ![f].ret = Last(frames[f].got)]
    /\ UNCHANGED <<client, requests, panicked, log, endpointCalls>>

\* Printer that recovers from a failed next.run with a Response of its own.
PrinterAfterSwallow(f) ==
    /\ At(f, "printer", "resumed")
    /\ LET res == Last(frames[f].got) IN
         /\ log' = Append(log, Event("after", f, <<>>))
         /\ frames' = Returned(f, IF res.tag = "err"
                                  THEN OkRes(frames[f].unit.ix, 0, <<>>) ELSE res)
    /\ UNCHANGED <<client, requests, panicked, endpointCalls>>

\* Printer::handle, first half:  println!("sending a request!");
PrinterBefore(f) ==
    /\ At(f, "printer", "start")
    /\ log' = Append(log, Event("before", f, frames[f].req.headers))
    /\ frames' = [frames EXCEPT ![f].pc = "call"]
    /\ UNCHANGED <<client, requests, panicked, endpointCalls>>

\* Printer::handle, second half:
\*   let res = next.run(req, client).await?;  println!("request completed!");  Ok(res)
PrinterAfter(f) ==
    /\ At(f, "printer", "resumed")
    /\ LET res == Last(frames[f].got) IN
         IF res.tag = "err"
         THEN /\ frames' = Returned(f, res)
              /\ UNCHANGED log
         ELSE /\ log' = Append(log, Event("after", f, res.headers))
              /\ frames' = Returned(f, res)
    /\ UNCHANGED <<client, requests, panicked, endpointCalls>>

\* Header middleware: adds its request header, then delegates.
HeaderBefore(f) ==
    /\ At(f, "header", "start")
    /\ frames' = [frames EXCEPT ![f].pc = "call",
                                ![f].req = WithHeader(@, <<"X", frames[f].unit.ix>>)]
    /\ UNCHANGED <<client, requests, panicked, log, endpointCalls>>

\* Header middleware: appends its response header to the Response of next.
HeaderAfter(f) ==
    /\ At(f, "header", "resumed")
    /\ LET res == Last(frames[f].got) IN
         frames' = Returned(f, IF res.tag = "err" THEN res
                               ELSE WithHeader(res, <<"Done", frames[f].unit.ix>>))
    /\ UNCHANGED <<client, requests, panicked, log, endpointCalls>>

\* A middleware that returns a Response without calling next.
ShortCircuit(f) ==
    /\ At(f, "shortcircuit", "start")
    /\ frames' = Returned(f, OkRes(frames[f].unit.ix, 0, <<>>))
    /\ UNCHANGED <<client, requests, panicked, log, endpointCalls>>

\* A middleware that fails without calling next.
Fail(f) ==
    /\ At(f, "fail", "start")
    /\ frames' = Returned(f, ErrRes(frames[f].unit.ix, 0))
    /\ UNCHANGED <<client, requests, panicked, log, endpointCalls>>

\* Retry middleware: forwards a first request ...
RetryFirst(f) ==
    /\ At(f, "retry", "start")
    /\ frames' = [frames EXCEPT ![f].pc = "call",
                                ![f].req = WithHeader(frames[f].orig, <<"Try", 1>>)]
    /\ UNCHANGED <<client, requests, panicked, log, endpointCalls>>

\* ... then, whatever came back, calls next.run again with a second request.
RetrySecond(f) ==
    /\ At(f, "retry", "resumed")
    /\ frames[f].calls = 1
    /\ frames' = [frames EXCEPT ![f].pc = "call",
                                ![f].req = WithHeader(frames[f].orig, <<"Try", 2>>)]
    /\ UNCHANGED <<client, requests, panicked, log, endpointCalls>>

\* ... and returns the result of the second call.
RetryReturn(f) ==
    /\ At(f, "retry", "resumed")
    /\ frames[f].calls = 2
    /\ frames' = Returned(f, Last(frames[f].got))
    /\ UNCHANGED <<client, requests, panicked, log, endpointCalls>>

\* Recovering middleware: delegates ...
RecoverCall(f) ==
    /\ At(f, "recover", "start")
    /\ frames' = [frames EXCEPT ![f].pc = "call"]
    /\ UNCHANGED <<client, requests, panicked, log, endpointCalls>>

\* ... and substitutes a fallback Response for a failure of next.run.
RecoverReturn(f) ==
    /\ At(f, "recover", "resumed")
    /\ LET res == Last(frames[f].got) IN
         frames' = Returned(f, IF res.tag = "err"
                               THEN OkRes(frames[f].unit.ix, 0, <<>>) ELSE res)
    /\ UNCHANGED <<client, requests, panicked, log, endpointCalls>>

----------------------------------------------------------------------------
(* Specification *)

Init ==
    /\ client \in {with_client(t) : t \in Transports}
    /\ requests = <<>>
    /\ panicked = "none"
    /\ frames = <<>>
    /\ log = <<>>
    /\ endpointCalls = 0

FrameIds == 1 .. Len(frames)

\* The caller of Spec builds and sends a single request.
NoRequestYet == requests = <<>>

Next ==
    \/ \E uri \in Uris : NoRequestYet /\ get(uri)
    \/ \E uri \in Uris : NoRequestYet /\ head(uri)
    \/ \E uri \in Uris : NoRequestYet /\ post(uri)
    \/ \E uri \in Uris : NoRequestYet /\ put(uri)
    \/ \E uri \in Uris : NoRequestYet /\ delete(uri)
    \/ \E uri \in Uris : NoRequestYet /\ connect(uri)
    \/ \E uri \in Uris : NoRequestYet /\ options(uri)
    \/ \E uri \in Uris : NoRequestYet /\ trace(uri)
    \/ \E uri \in Uris : NoRequestYet /\ patch(uri)
    \/ \E r \in DOMAIN requests, kind \in UnitKinds : AttachMiddleware(r, kind)
    \/ \E r \in DOMAIN requests : Send(r)
    \/ \E f \in FrameIds : NextRun(f)
    \/ \E f \in FrameIds : EndpointReturn(f)
    \/ \E f \in FrameIds : SendReturn(f)
    \/ \E f \in FrameIds : PrinterBefore(f)
    \/ \E f \in FrameIds : PrinterAfter(f)
    \/ \E f \in FrameIds : HeaderBefore(f)
    \/ \E f \in FrameIds : HeaderAfter(f)
    \/ \E f \in FrameIds : ShortCircuit(f)
    \/ \E f \in FrameIds : Fail(f)
    \/ \E f \in FrameIds : RetryFirst(f)
    \/ \E f \in FrameIds : RetrySecond(f)
    \/ \E f \in FrameIds : RetryReturn(f)
    \/ \E f \in FrameIds : RecoverCall(f)
    \/ \E f \in FrameIds : RecoverReturn(f)

Spec == Init /\ [][Next]_vars

----------------------------------------------------------------------------
(* Reading a state *)

Sends == DOMAIN requests

HasRoot(s) == \E f \in FrameIds : frames[f].send = s /\ frames[f].unit.body = "send"

\* The caller's future of send s.
Root(s) == CHOOSE f \in FrameIds : frames[f].send = s /\ frames[f].unit.body = "send"

SendDone(s) == HasRoot(s) /\ frames[Root(s)].pc = "done"

IsHandle(f) == frames[f].unit.ix > 0

IsEndpoint(f) == frames[f].unit.body = "endpoint"

Children(p) == {c \in FrameIds : frames[c].parent = p}

RECURSIVE Ancestors(_)
Ancestors(f) ==
    IF frames[f].parent = 0 THEN {}
    ELSE {frames[f].parent} \cup Ancestors(frames[f].parent)

\* The k-th future frame p created by calling next.run (its children in order).
RECURSIVE ChildSeq(_, _)
ChildSeq(p, from) ==
    IF from > Len(frames) THEN <<>>
    ELSE IF frames[from].parent = p THEN <<from>> \o ChildSeq(p, from + 1)
    ELSE ChildSeq(p, from + 1)

\* The side effects of send s, as <<kind, middleware index>> markers.
Markers(s) ==
    LET mine == SelectSeq(log, LAMBDA e : e.send = s)
    IN [i \in 1 .. Len(mine) |-> <<mine[i].ev, mine[i].unit>>]

EndpointInvocations(s) ==
    Len(SelectSeq(log, LAMBDA e : e.send = s /\ e.ev = "endpoint"))

IsPrefix(a, b) == Len(a) <= Len(b) /\ a = SubSeq(b, 1, Len(a))

Bodies(s) == [i \in 1 .. Len(requests[s].middleware) |-> requests[s].middleware[i].body]

AllBodiesIn(s, set) == \A i \in 1 .. Len(requests[s].middleware) : Bodies(s)[i] \in set

----------------------------------------------------------------------------
(* C1 *)

\* before 1..N, the endpoint, after N..1
NestedOrder(N) ==
    [i \in 1 .. 2 * N + 1 |->
        IF i <= N THEN <<"before", i>>
        ELSE IF i = N + 1 THEN <<"endpoint", 0>>
        ELSE <<"after", 2 * N + 2 - i>>]

\* C1: in a send whose N >= 0 middleware all emit a before marker, call
\* next.run once and emit an after marker, the markers always form a prefix of
\* before 1..N, endpoint, after N..1, and a send that returned a Response has
\* emitted exactly that sequence.
C1_NestedMarkerOrder ==
    \A s \in Sends :
        AllBodiesIn(s, {"printer"}) =>
            LET N == Len(requests[s].middleware) IN
            /\ IsPrefix(Markers(s), NestedOrder(N))
            /\ (SendDone(s) /\ frames[Root(s)].ret.tag = "ok")
                   => Markers(s) = NestedOrder(N)

C1_Witness ==
    \E s \in Sends :
        /\ AllBodiesIn(s, {"printer"})
        /\ Len(requests[s].middleware) = MaxMiddleware
        /\ SendDone(s)
        /\ frames[Root(s)].ret.tag = "ok"
        /\ Len(Markers(s)) = 2 * MaxMiddleware + 1

----------------------------------------------------------------------------
(* C2 *)

ShortCircuited(f) ==
    /\ IsHandle(f)
    /\ frames[f].pc = "done"
    /\ frames[f].calls = 0
    /\ frames[f].ret.tag = "ok"

\* C2: once the middleware at index i has returned a Response without calling
\* next.run, no middleware of that send at a greater index has been invoked,
\* the endpoint has not been invoked (the call counter is 0), and the frame
\* that called next.run (middleware i-1, or the caller) received that Response.
C2_ShortCircuitStopsChain ==
    \A f \in FrameIds :
        ShortCircuited(f) =>
            LET s == frames[f].send
                p == frames[f].parent
            IN /\ \A g \in FrameIds :
                      frames[g].send = s => frames[g].unit.ix <= frames[f].unit.ix
               /\ \A g \in FrameIds : frames[g].send = s => ~IsEndpoint(g)
               /\ EndpointInvocations(s) = 0
               /\ Len(requests) = 1 => endpointCalls = 0
               /\ frames[p].unit.ix = frames[f].unit.ix - 1
               /\ \E k \in DOMAIN frames[p].got :
                      /\ ChildSeq(p, 1)[k] = f
                      /\ frames[p].got[k] = frames[f].ret
                      /\ frames[p].got[k].by = frames[f].unit.ix

C2_Witness ==
    \E f \in FrameIds :
        /\ ShortCircuited(f)
        /\ frames[f].unit.ix < Len(requests[frames[f].send].middleware)
        /\ frames[f].unit.ix > 1
        /\ SendDone(frames[f].send)

----------------------------------------------------------------------------
(* C3 *)

\* The request headers the header middleware deeper than index i add, in order.
DeeperHeaders(s, i) ==
    LET deeper == SelectSeq(requests[s].middleware,
                            LAMBDA u : u.ix > i /\ u.body = "header")
    IN [k \in 1 .. Len(deeper) |-> <<"X", deeper[k].ix>>]

\* The endpoint futures created, directly or through deeper middleware, by f.
EndpointsUnder(f) == {e \in FrameIds : IsEndpoint(e) /\ f \in Ancestors(e)}

DelegateOnce == {"printer", "header"}

\* A middleware invocation that has called next.run twice and returned, every
\* deeper middleware being one that delegates exactly once.
RetriedOverDelegators(f) ==
    /\ frames[f].unit.body = "retry"
    /\ frames[f].pc = "done"
    /\ \A i \in 1 .. Len(requests[frames[f].send].middleware) :
           i > frames[f].unit.ix => Bodies(frames[f].send)[i] \in DelegateOnce

Forwarded(f, k) ==
    [frames[f].orig EXCEPT !.headers =
        @ \o << <<"Try", k>> >> \o DeeperHeaders(frames[f].send, frames[f].unit.ix)]

\* C3: a middleware that called next.run twice over middleware that each
\* delegate once caused exactly two endpoint invocations, the first with the
\* first request it forwarded and the second with the second, and received one
\* Result from each of the two invocations.
C3_TwoRunsTwoEndpointCalls ==
    \A f \in FrameIds :
        RetriedOverDelegators(f) =>
            /\ Cardinality(EndpointsUnder(f)) = 2
            /\ Len(frames[f].got) = 2
            /\ \E e1, e2 \in EndpointsUnder(f) :
                  /\ e1 < e2
                  /\ frames[e1].n < frames[e2].n
                  /\ frames[e1].req = Forwarded(f, 1)
                  /\ frames[e2].req = Forwarded(f, 2)
                  /\ \A k \in {1, 2} :
                        LET e == IF k = 1 THEN e1 ELSE e2
                            r == frames[f].got[k]
                        IN /\ r.tag = frames[e].ret.tag
                           /\ r.n = frames[e].n
                           /\ r.tag = "ok" => r.echo = frames[e].req.headers
            /\ (Len(SelectSeq(requests[frames[f].send].middleware,
                              LAMBDA u : u.body = "retry")) = 1
                /\ SendDone(frames[f].send))
                   => EndpointInvocations(frames[f].send) = 2

C3_Witness ==
    \E f \in FrameIds :
        /\ RetriedOverDelegators(f)
        /\ frames[f].unit.ix = 1
        /\ Bodies(frames[f].send) = <<"retry", "header", "printer">>
        /\ frames[f].got[1].tag = "err"
        /\ frames[f].got[2].tag = "ok"
        /\ SendDone(frames[f].send)

----------------------------------------------------------------------------
(* C4 *)

SentRequest(s) ==
    [method |-> requests[s].method, uri |-> requests[s].uri, headers |-> <<>>]

\* C4: with no middleware attached, send invokes the endpoint at most once,
\* directly, with the request and the transport handle of the builder, and a
\* send that has returned invoked it exactly once and returned its result.
C4_EmptyListCallsEndpointOnce ==
    \A s \in Sends :
        (requests[s].middleware = <<>> /\ HasRoot(s)) =>
            /\ EndpointInvocations(s) <= 1
            /\ \A e \in FrameIds :
                  (frames[e].send = s /\ e # Root(s)) =>
                      /\ IsEndpoint(e)
                      /\ frames[e].parent = Root(s)
                      /\ frames[e].req = SentRequest(s)
                      /\ frames[e].client = client.client
            /\ SendDone(s) =>
                  /\ EndpointInvocations(s) = 1
                  /\ \E e \in Children(Root(s)) :
                        /\ Children(Root(s)) = {e}
                        /\ frames[Root(s)].ret = frames[e].ret
                        /\ frames[e].ret =
                               Transport(client.client, frames[e].n, SentRequest(s))

C4_Witness ==
    \E s \in Sends :
        /\ requests[s].middleware = <<>>
        /\ requests[s].method = "POST"
        /\ SendDone(s)
        /\ endpointCalls = 1

----------------------------------------------------------------------------
(* C5 *)

\* Bodies that return a failure of next.run as it is.
PassThrough == {"printer", "header"}

\* A future that has failed with an error of its own: the endpoint, or a
\* middleware that fails without calling next.
FailedAtSource(f) ==
    /\ frames[f].unit.body \in {"endpoint", "fail"}
    /\ frames[f].pc = "done"
    /\ frames[f].ret.tag = "err"

Unintercepted(f) ==
    \A a \in Ancestors(f) : IsHandle(a) => frames[a].unit.body \in PassThrough

\* C5: when the endpoint or a middleware fails and every enclosing middleware
\* returns the result of next.run as it is, each enclosing frame that has
\* resumed received exactly that error and each that has returned, the
\* caller's send included, returned exactly that error.
C5_ErrorPropagatesUnchanged ==
    \A f \in FrameIds :
        (FailedAtSource(f) /\ Unintercepted(f)) =>
            \A a \in Ancestors(f) :
                /\ frames[a].pc \in {"resumed", "done"}
                       => frames[a].got = <<frames[f].ret>>
                /\ frames[a].pc = "done" => frames[a].ret = frames[f].ret

C5_Witness ==
    \E f \in FrameIds :
        /\ FailedAtSource(f)
        /\ Unintercepted(f)
        /\ IsEndpoint(f)
        /\ Cardinality(Ancestors(f)) = MaxMiddleware + 1
        /\ SendDone(frames[f].send)
        /\ frames[Root(frames[f].send)].ret = ErrRes(0, 1)

----------------------------------------------------------------------------
(* C6 *)

\* A recovering middleware at index i that has caught the transport's failure:
\* everything deeper passes the failure through, everything shallower passes
\* results through.
CaughtTransportFailure(f) ==
    /\ frames[f].unit.body = "recover"
    /\ frames[f].pc = "done"
    /\ frames[f].got # <<>>
    /\ Last(frames[f].got).tag = "err"
    /\ Last(frames[f].got).by = 0
    /\ \A i \in 1 .. Len(requests[frames[f].send].middleware) :
           i # frames[f].unit.ix => Bodies(frames[f].send)[i] \in PassThrough

NoError(results) == \A k \in DOMAIN results : results[k].tag = "ok"

\* C6: when the endpoint fails and the middleware at index i catches the
\* failure and returns a fallback Response, every middleware at a lesser index
\* that has resumed received a successful Response, and the caller's send
\* received and returned the fallback Response of middleware i, never the error.
C6_RecoveredFailureIsHidden ==
    \A f \in FrameIds :
        CaughtTransportFailure(f) =>
            LET s == frames[f].send
                i == frames[f].unit.ix
            IN /\ frames[f].ret.tag = "ok"
               /\ frames[f].ret.by = i
               /\ \A a \in FrameIds :
                     (frames[a].send = s /\ ~IsEndpoint(a) /\ frames[a].unit.ix < i) =>
                         /\ NoError(frames[a].got)
                         /\ frames[a].pc \in {"resumed", "done"}
                                => /\ frames[a].got # <<>>
                                   /\ Last(frames[a].got).by = i
                         /\ frames[a].pc = "done"
                                => /\ frames[a].ret.tag = "ok"
                                   /\ frames[a].ret.by = i

C6_Witness ==
    \E f \in FrameIds :
        /\ CaughtTransportFailure(f)
        /\ frames[f].unit.ix = MaxMiddleware
        /\ SendDone(frames[f].send)
        /\ frames[Root(frames[f].send)].ret.tag = "ok"
        /\ endpointCalls = 1

----------------------------------------------------------------------------
(* C7 *)

\* Middleware A attached first, then B, both of the header pattern, on a GET.
HeaderScenario(s) ==
    /\ requests[s].method = "GET"
    /\ Bodies(s) = <<"header", "header">>

\* C7: with A then B attached to a GET request, every request the endpoint
\* receives carries X-A then X-B, and the Response the send returns carries
\* B's Done header before A's, on top of the echoed X-A, X-B.
C7_HeaderScenario ==
    \A s \in Sends :
        HeaderScenario(s) =>
            /\ \A e \in FrameIds :
                  (frames[e].send = s /\ IsEndpoint(e)) =>
                      /\ frames[e].req.method = "GET"
                      /\ frames[e].req.headers = << <<"X", 1>>, <<"X", 2>> >>
            /\ \A e \in 1 .. Len(log) :
                  (log[e].send = s /\ log[e].ev = "endpoint") =>
                      log[e].headers = << <<"X", 1>>, <<"X", 2>> >>
            /\ (SendDone(s) /\ frames[Root(s)].ret.tag = "ok") =>
                  /\ frames[Root(s)].ret.headers = << <<"Done", 2>>, <<"Done", 1>> >>
                  /\ frames[Root(s)].ret.echo = << <<"X", 1>>, <<"X", 2>> >>

C7_Witness ==
    \E s \in Sends :
        /\ HeaderScenario(s)
        /\ SendDone(s)
        /\ frames[Root(s)].ret.headers = << <<"Done", 2>>, <<"Done", 1>> >>

----------------------------------------------------------------------------
(* C8 *)

\* C8: a constructor given an unparseable target panics with the parse error
\* and leaves no request builder, no future, no side effect and no transport
\* call behind; every request builder that exists has a parsed target.
C8_MalformedUriFailsAtConstruction ==
    /\ \A s \in Sends : requests[s].uri \in WellFormedUris
    /\ panicked # "none" =>
          /\ panicked = "InvalidUri"
          /\ requests = <<>>
          /\ frames = <<>>
          /\ log = <<>>
          /\ endpointCalls = 0
          /\ ~ ENABLED Next

C8_Witness == panicked = "InvalidUri"

----------------------------------------------------------------------------
(* C9 *)

HasReturned(f) == IsHandle(f) /\ frames[f].pc = "done"

Count(set) == Cardinality(set)

\* The three things of the claim, as what can be seen of an invocation.
DidDelegate(f)     == frames[f].calls >= 1
DidShortCircuit(f) == frames[f].calls = 0 /\ frames[f].ret.tag = "ok"
DidFail(f)         == frames[f].ret.tag = "err"

\* C9 as stated: of delegating to next, short-circuiting with a Response and
\* failing, exactly one happens in every middleware invocation.
C9_ExactlyOneOutcome ==
    \A f \in FrameIds :
        HasReturned(f) =>
            Count({x \in {"delegate", "shortcircuit", "fail"} :
                      \/ x = "delegate" /\ DidDelegate(f)
                      \/ x = "shortcircuit" /\ DidShortCircuit(f)
                      \/ x = "fail" /\ DidFail(f)}) = 1

\* Every next.run call of f invoked the middleware attached right after f, or
\* the endpoint when f is the last one.
DelegatedToNext(f) ==
    /\ frames[f].calls >= 1
    /\ Cardinality(Children(f)) = frames[f].calls
    /\ Len(frames[f].got) = frames[f].calls
    /\ \A c \in Children(f) :
          IF frames[f].unit.ix < Len(requests[frames[f].send].middleware)
          THEN frames[c].unit = requests[frames[f].send].middleware[frames[f].unit.ix + 1]
          ELSE IsEndpoint(c)

ReturnedOwn(f, tag) ==
    /\ frames[f].calls = 0
    /\ Children(f) = {}
    /\ frames[f].got = <<>>
    /\ frames[f].ret.tag = tag
    /\ frames[f].ret.by = frames[f].unit.ix

\* C9, amended: every middleware invocation that has returned did exactly one
\* of: delegate to next, one or more times, each call invoking the middleware
\* attached right after it (the endpoint after the last); short-circuit with a
\* Response of its own without calling next; fail with an error of its own
\* without calling next.  A delegating invocation may still return an error.
C9_DelegateOrOwnResult ==
    \A f \in FrameIds :
        HasReturned(f) =>
            Count({x \in {"delegate", "shortcircuit", "fail"} :
                      \/ x = "delegate" /\ DelegatedToNext(f)
                      \/ x = "shortcircuit" /\ ReturnedOwn(f, "ok")
                      \/ x = "fail" /\ ReturnedOwn(f, "err")}) = 1

\* Printer has delegated and then returned the error of next.run.
C9_Witness ==
    \E f \in FrameIds :
        /\ HasReturned(f)
        /\ frames[f].unit.body = "printer"
        /\ DelegatedToNext(f)
        /\ frames[f].ret.tag = "err"

----------------------------------------------------------------------------
(* C10 *)

ObjectTwin(unit) == [unit EXCEPT !.form = "object"]

\* The markers, echoed request headers and response headers of a chain of
\* printer and header bodies, whatever the form of its units.
PrinterUnits(s) == SelectSeq(requests[s].middleware, LAMBDA u : u.body = "printer")

HeaderUnits(s) == SelectSeq(requests[s].middleware, LAMBDA u : u.body = "header")

ChainMarkers(s) ==
    LET P == PrinterUnits(s)
        n == Len(P)
    IN [i \in 1 .. 2 * n + 1 |->
           IF i <= n THEN <<"before", P[i].ix>>
           ELSE IF i = n + 1 THEN <<"endpoint", 0>>
           ELSE <<"after", P[2 * n + 2 - i].ix>>]

ChainDone(s) ==
    LET H == HeaderUnits(s)
    IN [i \in 1 .. Len(H) |-> <<"Done", H[Len(H) + 1 - i].ix>>]

\* C10: a function unit is invoked with exactly the (request, handle, cursor)
\* an object unit at its place would get, its result is what the caller of
\* next.run receives, and a chain of printer and header bodies produces the
\* same calls and the same Response whichever of its units are functions.
C10_FunctionLikeObject ==
    /\ \A c \in FrameIds :
          frames[c].unit.form = "function" =>
              LET p == frames[c].parent
                  kids == ChildSeq(p, 1)
              IN /\ (frames[p].pc = "await" /\ Last(kids) = c) =>
                        LET d == run(frames[p].next, frames[p].req, frames[p].client)
                            twin == handle(ObjectTwin(d.unit), d.req, d.client, d.next)
                        IN /\ d.unit = frames[c].unit
                           /\ frames[c].orig = twin.orig
                           /\ frames[c].client = twin.client
                           /\ frames[c].next = twin.next
                 /\ frames[c].pc = "done" =>
                        \E k \in DOMAIN frames[p].got :
                            kids[k] = c /\ frames[p].got[k] = frames[c].ret
    /\ \A s \in Sends :
          (AllBodiesIn(s, {"printer", "header"}) /\ SendDone(s)
             /\ frames[Root(s)].ret.tag = "ok") =>
              /\ Markers(s) = ChainMarkers(s)
              /\ frames[Root(s)].ret.echo = DeeperHeaders(s, 0)
              /\ frames[Root(s)].ret.headers = ChainDone(s)

C10_Witness ==
    \E s \in Sends :
        /\ Len(requests[s].middleware) = MaxMiddleware
        /\ \A i \in 1 .. MaxMiddleware : requests[s].middleware[i].form = "function"
        /\ \E i, j \in 1 .. MaxMiddleware : Bodies(s)[i] = "printer" /\ Bodies(s)[j] = "header"
        /\ SendDone(s)
        /\ frames[Root(s)].ret.tag = "ok"

----------------------------------------------------------------------------
(* C13 *)

\* The builder a constructor has just returned.
Built(reqs, method, uri) ==
    /\ reqs # <<>>
    /\ Last(reqs).method = method
    /\ Last(reqs).uri = uri
    /\ Last(reqs).state = "built"
    /\ Last(reqs).middleware = <<>>

\* C13: every step of a per-verb constructor given a parseable target returns
\* one new request builder whose method is the verb of the constructor and
\* whose target is the URI passed in.
C13_VerbFixesMethodAndTarget ==
    [][\A uri \in WellFormedUris :
          /\ get(uri)     => Built(requests', "GET", uri)
          /\ head(uri)    => Built(requests', "HEAD", uri)
          /\ post(uri)    => Built(requests', "POST", uri)
          /\ put(uri)     => Built(requests', "PUT", uri)
          /\ delete(uri)  => Built(requests', "DELETE", uri)
          /\ connect(uri) => Built(requests', "CONNECT", uri)
          /\ options(uri) => Built(requests', "OPTIONS", uri)
          /\ trace(uri)   => Built(requests', "TRACE", uri)
          /\ patch(uri)   => Built(requests', "PATCH", uri)
          /\ (Len(requests') > Len(requests)) =>
                 /\ Len(requests') = Len(requests) + 1
                 /\ Last(requests').method \in Methods
                 /\ Last(requests').uri \in WellFormedUris]_vars

C13_Witness ==
    /\ {requests[s].method : s \in Sends} = {"PATCH"}
    /\ \A s \in Sends : requests[s].uri \in WellFormedUris /\ requests[s].state = "sent"

----------------------------------------------------------------------------
(* C14 *)

\* The cursor over what remains of the list of send s after its first i units.
CursorAfter(s, i) ==
    NextNew(SubSeq(requests[s].middleware, i + 1, Len(requests[s].middleware)),
            "endpoint")

\* What one next.run on the cursor of frame p has invoked as frame c.
Advanced(p, c) ==
    LET held == frames[p].next
        k == Len(held.next_middleware)
    IN k > 0 =>
          /\ ~IsEndpoint(c)
          /\ frames[c].unit = Head(held.next_middleware)
          /\ frames[c].next.next_middleware = Tail(held.next_middleware)
          /\ Len(frames[c].next.next_middleware) = k - 1
          /\ frames[c].next.endpoint = held.endpoint

\* C14: a next.run on a cursor with k > 0 remaining units invokes exactly the
\* first of them with a cursor over the other k-1 in the same order and with
\* the same endpoint, so the unit at depth i of a send is the i-th attached
\* one; the list of a sent request keeps its length and content.
C14_RunAdvancesByOne ==
    /\ [](\A p \in FrameIds :
            /\ ~IsEndpoint(p) =>
                   frames[p].next = CursorAfter(frames[p].send, frames[p].unit.ix)
            /\ IsHandle(p) =>
                   frames[p].unit = requests[frames[p].send].middleware[frames[p].unit.ix]
            /\ \A c \in Children(p) : Advanced(p, c))
    /\ [][\A s \in Sends :
            requests[s].state = "sent" =>
                /\ requests'[s].middleware = requests[s].middleware
                /\ Len(requests'[s].middleware) = Len(requests[s].middleware)]_vars

C14_Witness ==
    \E p, c, g \in FrameIds :
        /\ Len(frames[p].next.next_middleware) = 3
        /\ frames[c].parent = p /\ frames[g].parent = c
        /\ IsHandle(c) /\ IsHandle(g)
        /\ Len(frames[g].next.next_middleware) = 1
        /\ frames[p].pc = "done"

----------------------------------------------------------------------------
(* C15 *)

\* The frames of send s.
FramesOf(s) == {f \in FrameIds : frames[f].send = s}

\* No invocation of send s has called next.run more than once so far.
SinglePass(s) == \A f \in FramesOf(s) : frames[f].calls <= 1

\* C15: every invocation of the endpoint was made by a next.run on a cursor
\* with no middleware left, and a send in which no invocation has called
\* next.run more than once has invoked the endpoint at most once.
C15_EndpointOnlyAtEmptyCursor ==
    /\ \A e \in FrameIds :
          IsEndpoint(e) =>
              /\ frames[e].parent \in FrameIds
              /\ frames[frames[e].parent].next.next_middleware = <<>>
              /\ frames[frames[e].parent].calls >= 1
    /\ \A s \in Sends :
          /\ EndpointInvocations(s) = Count({e \in FramesOf(s) : IsEndpoint(e)})
          /\ SinglePass(s) => EndpointInvocations(s) <= 1

C15_Witness ==
    \E s \in Sends :
        /\ SendDone(s)
        /\ SinglePass(s)
        /\ Len(requests[s].middleware) = 2
        /\ EndpointInvocations(s) = 1

----------------------------------------------------------------------------
(* C19 *)

\* The middleware invocations of send s that have started and not returned.
InFlight(s) == {f \in FramesOf(s) : IsHandle(f) /\ frames[f].pc \notin {"done", "dropped"}}

\* The endpoint of send s has been invoked and has not returned.
EndpointInProgress(s) ==
    \E e \in FramesOf(s) : IsEndpoint(e) /\ frames[e].pc \notin {"done", "dropped"}

\* C19: while no invocation of a send has called next.run more than once, the
\* middleware invocations in flight are one each of the first k attached
\* units, all but the last are suspended inside next.run, and the endpoint is
\* in progress only while all N are suspended there.
C19_InFlightIsSuspendedPrefix ==
    \A s \in Sends :
        SinglePass(s) =>
            LET k == Count(InFlight(s))
                N == Len(requests[s].middleware)
            IN /\ {frames[f].unit.ix : f \in InFlight(s)} = 1 .. k
               /\ k <= N
               /\ \A f \in InFlight(s) :
                     frames[f].unit.ix < k => frames[f].pc = "await"
               /\ EndpointInProgress(s) =>
                     /\ k = N
                     /\ \A f \in InFlight(s) : frames[f].pc = "await"

C19_Witness ==
    \E s \in Sends :
        /\ SinglePass(s)
        /\ Len(requests[s].middleware) = 3
        /\ EndpointInProgress(s)
        /\ Count(InFlight(s)) = 3

----------------------------------------------------------------------------
(* C18 *)

\* C18: a middleware invocation that has forwarded the transport handle to
\* next.run still owns a usable handle afterwards.
C18_HandleUsableAfterRun ==
    \A f \in FrameIds :
        (IsHandle(f) /\ frames[f].calls >= 1) => frames[f].owns

----------------------------------------------------------------------------
(* Several sends in flight on one Client *)

\* The number of requests the caller builds from the one Client.
MaxSends == 2

\* The middleware of the concurrent scenario: Printer objects.
ConcKinds == {kind \in UnitKinds : kind.body = "printer" /\ kind.form = "object"}

\* The futures future p owns: itself and, through each pending next.run, the
\* future that call returned and whatever that one owns.
OwnedBy(p) == {f \in FrameIds : f = p \/ p \in Ancestors(f)}

\* The caller drops the future of send s before it has returned: every
\* future it owns, directly or through a pending next.run, is dropped with it.
Cancel(s) ==
    /\ panicked = "none"
    /\ s \in Sends
    /\ requests[s].state = "sent"
    /\ ~SendDone(s)
    /\ requests' = [requests EXCEPT ![s].state = "cancelled"]
    /\ frames' = [f \in DOMAIN frames |->
                    IF f \in OwnedBy(Root(s)) /\ frames[f].pc # "done"
                    THEN [frames[f] EXCEPT !.pc = "dropped"]
                    ELSE frames[f]]
    /\ UNCHANGED <<client, panicked, log, endpointCalls>>

NextConc ==
    \/ \E uri \in Uris : Len(requests) < MaxSends /\ get(uri)
    \/ \E r \in DOMAIN requests, kind \in ConcKinds :
          Len(requests[r].middleware) < MaxMiddleware - 1 /\ AttachMiddleware(r, kind)
    \/ \E r \in DOMAIN requests : Send(r)
    \/ \E f \in FrameIds : NextRun(f)
    \/ \E f \in FrameIds : EndpointReturn(f)
    \/ \E f \in FrameIds : SendReturn(f)
    \/ \E f \in FrameIds : PrinterBefore(f)
    \/ \E f \in FrameIds : PrinterAfter(f)
    \/ \E s \in Sends : Cancel(s)

SpecConc == Init /\ [][NextConc]_vars

----------------------------------------------------------------------------
(* C11 *)

\* C11: no step of building or sending requests, in any interleaving of
\* several sends, changes the Client: it keeps the transport handle it was
\* created with, and every builder it has created, every future of every send
\* and every endpoint invocation is bound to that same handle.
C11_ClientStateUnchanged ==
    /\ [][client' = client]_vars
    /\ [](/\ client \in {with_client(t) : t \in Transports}
          /\ \A s \in Sends : requests[s].client = client.client
          /\ \A f \in FrameIds : frames[f].client = client.client
          /\ \A i \in DOMAIN log : log[i].client = client.client)

C11_Witness ==
    /\ Len(requests) = MaxSends
    /\ \A s \in Sends :
          /\ requests[s].client = client.client
          /\ EndpointInProgress(s)
          /\ Len(requests[s].middleware) = s - 1

----------------------------------------------------------------------------
(* C12 *)

\* The futures of send s invoked for its i-th middleware.
InvocationsOf(s, i) == {f \in FramesOf(s) : frames[f].unit.ix = i /\ IsHandle(f)}

\* C12: with several sends in flight on one Client, in every interleaving the
\* markers of each send are a prefix of its own nested order (equal to it once
\* the send has returned a Response), every future of a send was started by a
\* future of the same send, runs a unit of that send's own list and holds the
\* cursor over what follows it there, and no unit of a send is invoked twice.
C12_ConcurrentSendsKeepOwnOrder ==
    \A s \in Sends :
        LET N == Len(requests[s].middleware) IN
        /\ IsPrefix(Markers(s), NestedOrder(N))
        /\ (SendDone(s) /\ frames[Root(s)].ret.tag = "ok") => Markers(s) = NestedOrder(N)
        /\ \A f \in FramesOf(s) :
              /\ frames[f].parent # 0 => frames[frames[f].parent].send = s
              /\ frames[f].unit.ix <= N
              /\ IsHandle(f) => frames[f].unit = requests[s].middleware[frames[f].unit.ix]
              /\ ~IsEndpoint(f) => frames[f].next = CursorAfter(s, frames[f].unit.ix)
        /\ \A i \in 1 .. N : Count(InvocationsOf(s, i)) <= 1

\* Two sends with lists of different length have both returned a Response and
\* their markers are interleaved in the output.
C12_Witness ==
    /\ Len(requests) = MaxSends
    /\ \A s \in Sends : SendDone(s) /\ frames[Root(s)].ret.tag = "ok"
    /\ Len(requests[1].middleware) # Len(requests[2].middleware)
    /\ \E i, j, k \in DOMAIN log :
          /\ i < j /\ j < k
          /\ log[i].send = log[k].send
          /\ log[i].send # log[j].send

----------------------------------------------------------------------------
(* C17 *)

Cancelled(s) == requests[s].state = "cancelled"

\* C17: from the step that cancels a send on, the send emits no further
\* before or after marker, invokes the endpoint no further time, starts and
\* resumes no future, and its caller has received neither a Response nor an
\* error; every future of the send that had not returned is dropped.
C17_CancelStopsWholeChain ==
    /\ [][\A s \in Sends :
            Cancelled(s)' =>
                /\ Markers(s)' = Markers(s)
                /\ EndpointInvocations(s)' = EndpointInvocations(s)
                /\ FramesOf(s)' = FramesOf(s)
                /\ Cancelled(s) => \A f \in FramesOf(s) : frames'[f] = frames[f]]_vars
    /\ [][\A s \in Sends : Cancelled(s) => Cancelled(s)']_vars
    /\ [](\A s \in Sends :
            Cancelled(s) =>
                /\ frames[Root(s)].pc = "dropped"
                /\ frames[Root(s)].ret = NoRes
                /\ \A f \in FramesOf(s) : frames[f].pc \in {"done", "dropped"})

\* A send was cancelled while its endpoint was in progress under two
\* suspended middleware, and the other send has since returned a Response.
C17_Witness ==
    \E s, t \in Sends :
        /\ Cancelled(s)
        /\ \E e \in FramesOf(s) : IsEndpoint(e) /\ frames[e].pc = "dropped"
        /\ Count({f \in FramesOf(s) : IsHandle(f) /\ frames[f].pc = "dropped"}) = 2
        /\ t # s /\ SendDone(t) /\ frames[Root(t)].ret.tag = "ok"
        /\ Len(log) > 0 /\ Last(log).send = t

----------------------------------------------------------------------------
(* Two continuations of one cursor *)

\* A middleware that starts next.run twice on the cursor it was given and
\* awaits both futures together, returning the first error or else the
\* Response of the first call.
JoinUnit == [form |-> "object", body |-> "join"]

JoinFirst(f) ==
    /\ At(f, "join", "start")
    /\ frames' = [frames EXCEPT ![f].pc = "call"]
    /\ UNCHANGED <<client, requests, panicked, log, endpointCalls>>

\* The second next.run, made while the first continuation is anywhere between
\* not yet polled and finished.
JoinSecond(f) ==
    /\ panicked = "none"
    /\ f \in DOMAIN frames
    /\ frames[f].unit.body = "join"
    /\ frames[f].pc \in {"await", "resumed"}
    /\ frames[f].calls = 1
    /\ frames' = [frames EXCEPT ![f].pc = "call"]
    /\ UNCHANGED <<client, requests, panicked, log, endpointCalls>>

JoinReturn(f) ==
    /\ At(f, "join", "resumed")
    /\ frames[f].calls = 2
    /\ Len(frames[f].got) = 2
    /\ LET got == frames[f].got
       IN frames' = Returned(f, IF got[1].tag = "err" THEN got[1]
                                ELSE IF got[2].tag = "err" THEN got[2] ELSE got[1])
    /\ UNCHANGED <<client, requests, panicked, log, endpointCalls>>

\* One request whose list is a joining middleware followed by Printers.
NextJoin ==
    \/ \E uri \in Uris : NoRequestYet /\ get(uri)
    \/ \E r \in DOMAIN requests :
          requests[r].middleware = <<>> /\ AttachMiddleware(r, JoinUnit)
    \/ \E r \in DOMAIN requests, kind \in ConcKinds :
          requests[r].middleware # <<>> /\ AttachMiddleware(r, kind)
    \/ \E r \in DOMAIN requests : Send(r)
    \/ \E f \in FrameIds : NextRun(f)
    \/ \E f \in FrameIds : EndpointReturn(f)
    \/ \E f \in FrameIds : SendReturn(f)
    \/ \E f \in FrameIds : PrinterBefore(f)
    \/ \E f \in FrameIds : PrinterAfter(f)
    \/ \E f \in FrameIds : JoinFirst(f)
    \/ \E f \in FrameIds : JoinSecond(f)
    \/ \E f \in FrameIds : JoinReturn(f)

SpecJoin == Init /\ [][NextJoin]_vars

----------------------------------------------------------------------------
(* C16 *)

\* The middleware futures of the continuation whose first future is c.
HandlesUnder(c) == {f \in OwnedBy(c) : IsHandle(f)}

EndpointsOf(c) == {f \in OwnedBy(c) : IsEndpoint(f)}

\* Continuation c, started by future j from the cursor j holds, has so far
\* taken the units that follow j in attachment order, one future each and each
\* holding the cursor over what follows it, and has reached the endpoint only
\* after all of them (as long as none of its own futures has re-entered its
\* cursor in turn).
TraversesSuffix(j, c) ==
    LET s == frames[j].send
        i == frames[j].unit.ix
        k == Len(frames[j].next.next_middleware)
        m == Count(HandlesUnder(c))
    IN (\A f \in OwnedBy(c) : frames[f].calls <= 1) =>
       /\ m <= k
       /\ {frames[f].unit.ix : f \in HandlesUnder(c)} = (i + 1) .. (i + m)
       /\ \A f \in HandlesUnder(c) :
             /\ frames[f].next = CursorAfter(s, frames[f].unit.ix)
             /\ frames[f].unit.ix > i + 1 =>
                    frames[frames[f].parent].unit.ix = frames[f].unit.ix - 1
       /\ Count(EndpointsOf(c)) <= 1
       /\ EndpointsOf(c) # {} => m = k
       /\ (frames[c].pc = "done" /\ frames[c].ret.tag = "ok") =>
              /\ m = k
              /\ Count(EndpointsOf(c)) = 1
              /\ \A f \in OwnedBy(c) : frames[f].pc = "done"

\* C16: no step changes the cursor a future holds, and every continuation a
\* future has started from its cursor, whether the other one has not begun,
\* is part-way or has finished, traverses the same full suffix in order down
\* to the endpoint.
C16_CursorReenterable ==
    /\ [][\A f \in FrameIds : frames'[f].next = frames[f].next]_vars
    /\ [](\A j \in FrameIds :
            /\ ~IsEndpoint(j) =>
                   frames[j].next = CursorAfter(frames[j].send, frames[j].unit.ix)
            /\ \A c \in Children(j) : TraversesSuffix(j, c)
            /\ (frames[j].unit.body = "join" /\ frames[j].pc = "done"
                  /\ frames[j].ret.tag = "ok") =>
                   /\ Count(Children(j)) = 2
                   /\ EndpointInvocations(frames[j].send) = 2)

\* A joining middleware over two Printers has its first continuation waiting
\* on the endpoint while its second has been started and not yet polled.
C16_Witness ==
    \E j, c1, c2 \in FrameIds :
        /\ frames[j].unit.body = "join"
        /\ Len(frames[j].next.next_middleware) = 2
        /\ c1 # c2 /\ frames[c1].parent = j /\ frames[c2].parent = j
        /\ \E e \in EndpointsOf(c1) : frames[e].pc = "io"
        /\ frames[c2].pc = "start"
        /\ frames[c2].unit.ix = 2

----------------------------------------------------------------------------
(* C20 *)

\* A step of a future of a send: everything but the caller's own choices of
\* building, extending and sending a request.
Poll ==
    \/ \E f \in FrameIds : NextRun(f)
    \/ \E f \in FrameIds : EndpointReturn(f)
    \/ \E f \in FrameIds : SendReturn(f)
    \/ \E f \in FrameIds : PrinterBefore(f)
    \/ \E f \in FrameIds : PrinterAfter(f)
    \/ \E f \in FrameIds : HeaderBefore(f)
    \/ \E f \in FrameIds : HeaderAfter(f)
    \/ \E f \in FrameIds : ShortCircuit(f)
    \/ \E f \in FrameIds : Fail(f)
    \/ \E f \in FrameIds : RetryFirst(f)
    \/ \E f \in FrameIds : RetrySecond(f)
    \/ \E f \in FrameIds : RetryReturn(f)
    \/ \E f \in FrameIds : RecoverCall(f)
    \/ \E f \in FrameIds : RecoverReturn(f)

\* The executor keeps polling a future that can make a step, and the
\* transport answers every call.
SpecFair == Spec /\ WF_vars(Poll)

\* C20: a send whose middleware each call next.run at most twice and then
\* return, over a transport that answers, eventually returns a Response or
\* an error to its caller; the chain nests one call per middleware: the
\* future of the i-th middleware is awaited by that of the (i-1)-th (the
\* send's own for i = 1) and the endpoint by that of the N-th.
C20_SendTerminates ==
    /\ [](\A f \in FrameIds :
            /\ IsHandle(f) =>
                   /\ frames[f].parent \in FrameIds
                   /\ frames[frames[f].parent].unit.ix = frames[f].unit.ix - 1
            /\ IsEndpoint(f) =>
                   frames[frames[f].parent].unit.ix =
                       Len(requests[frames[f].send].middleware))
    /\ (requests # <<>> /\ requests[1].state = "sent")
           ~> (SendDone(1) /\ frames[Root(1)].ret.tag \in {"ok", "err"})

C20_Witness ==
    /\ SendDone(1)
    /\ Len(requests[1].middleware) = 3
    /\ \E f \in FrameIds : frames[f].unit.body = "retry" /\ frames[f].calls = 2
    /\ \E e \in FrameIds : IsEndpoint(e) /\ Count(Ancestors(e)) = 4

====
